---- MODULE Spec2Model ----
(***************************************************************************)
(* Blackjack web server, actor implementation (src/main.go lines 1-284):   *)
(* one goroutine per game session owns the GameState and serves commands   *)
(* from an unbuffered channel; HTTP handlers look sessions up in a global  *)
(* registry, send a command and wait for the reply with a timeout; a       *)
(* periodic pass closes and removes old sessions.                          *)
(***************************************************************************)
EXTENDS Integers, Sequences, FiniteSets, TLC

(***************************************************************************)
(* Bounds of the model.                                                    *)
(***************************************************************************)
MaxSessions == 2      \* createGame calls explored
NumClients == 1       \* concurrent HTTP requests, several sessions and eviction
NumHandlers == 2      \* concurrent HTTP requests on one session
NumStrides == 1       \* strides of the shuffles explored on one session
MaxNow == 60          \* the clock stops here (minutes)
MaxHandLen == 3       \* cards in the hands given to score alone
MaxCount == 53        \* no hit is started once game.count has reached it

(***************************************************************************)
(* Program constants.                                                      *)
(***************************************************************************)
NumCards == 52        \* make([]card, 52)
TTL == 30             \* 30*time.Minute
TickerPeriod == 60    \* time.NewTicker(1 * time.Hour), in minutes

scores == <<2, 3, 4, 5, 6, 7, 8, 9, 10, 10, 10, 10, 11>>

Sessions == 1..MaxSessions
Handlers == 1..NumHandlers
Clients == 1..NumClients

(***************************************************************************)
(* Hand evaluator.                                                         *)
(***************************************************************************)
\* func (c card) score() int
cardScore(c) == scores[(c % Len(scores)) + 1]

RECURSIVE sumScores(_)
sumScores(hand) ==
    IF hand = <<>> THEN 0 ELSE cardScore(Head(hand)) + sumScores(Tail(hand))

RECURSIVE countAces(_)
countAces(hand) ==
    IF hand = <<>> THEN 0
    ELSE (IF cardScore(Head(hand)) = 11 THEN 1 ELSE 0) + countAces(Tail(hand))

\* the demotion loop with total >= 21 in place of total > 21
RECURSIVE demoteAtTwentyOne(_, _)
demoteAtTwentyOne(t, aces) ==
    IF t >= 21 /\ aces > 0 THEN demoteAtTwentyOne(t - 10, aces - 1) ELSE t

\* for total > 21 && aces > 0 { total -= 10; aces-- }
RECURSIVE demote(_, _)
demote(total, aces) ==
    IF total > 21 /\ aces > 0 THEN demote(total - 10, aces - 1) ELSE total

score(hand) == demote(sumScores(hand), countAces(hand))

\* isBlackjack without its  len(hand) == 2
isBlackjackAnyLength(hand) == score(hand) = 21

isBlackjack(hand) == Len(hand) = 2 /\ score(hand) = 21

hasAce(hand) == \E i \in 1..Len(hand) : cardScore(hand[i]) = 11

(***************************************************************************)
(* Decks.  rand.Shuffle can leave the 52 cards in any order; the model     *)
(* explores a family of permutations: the cards listed by rank (the four   *)
(* 2s, the four 3s, ... the four Aces), read cyclically with stride a      *)
(* from position b.                                                        *)
(***************************************************************************)
byRank(j) == 13 * (j % 4) + (j \div 4)

shuffled(a, b) ==
    [i \in 1..NumCards |-> byRank((a * (i - 1) + b) % NumCards)]

\* strides that are units modulo 52, so that shuffled(a, b) is a permutation
Strides == <<51, 1, 17, 23, 11, 3, 5, 7, 9, 15, 19, 21, 25>>

\* the decks explored when one session is played
GameShuffles ==
    {shuffled(Strides[i], b) : i \in 1..NumStrides, b \in 0..(NumCards - 1)}

\* the deck dealt when several sessions run side by side: the player busts
\* on the second hit
Shuffles == {shuffled(Strides[1], 30)}

(***************************************************************************)
(* GameState and the state machine of gameLoop.                            *)
(***************************************************************************)
NoState ==
    [PlayerHand |-> <<>>, DealerHand |-> <<>>, Deck |-> <<>>,
     Bust |-> FALSE, Stand |-> FALSE, Message |-> ""]

\* initialState with the slip Deck: deck[1:], which leaves the dealer's card
\* in the Deck
initialStateDeckFromOne(deck) ==
    [PlayerHand |-> <<deck[1]>>,
     DealerHand |-> <<deck[2]>>,
     Deck       |-> SubSeq(deck, 2, Len(deck)),
     Bust |-> FALSE, Stand |-> FALSE, Message |-> ""]

\* initialState of createGame, from a shuffled deck
initialState(deck) ==
    [PlayerHand |-> <<deck[1]>>,
     DealerHand |-> <<deck[2]>>,
     Deck       |-> SubSeq(deck, 3, Len(deck)),
     Bust |-> FALSE, Stand |-> FALSE, Message |-> ""]

\* the guard without its !state.Bust
canActIgnoresBust(st) == ~st.Stand

\* if !state.Stand && !state.Bust
canAct(st) == ~st.Stand /\ ~st.Bust

\* case "hit" without its  state.Deck = state.Deck[1:]
hitKeepsDeck(st) ==
    IF st.Stand \/ st.Bust THEN [st |-> st, fault |-> FALSE]
    ELSE IF st.Deck = <<>> THEN [st |-> st, fault |-> TRUE]
    ELSE
      LET ph == Append(st.PlayerHand, Head(st.Deck))
          s1 == [st EXCEPT !.PlayerHand = ph]
          s2 == IF score(ph) > 21
                THEN [s1 EXCEPT !.Bust = TRUE, !.Message = "Bust!"]
                ELSE s1
          s3 == IF isBlackjack(ph)
                THEN [s2 EXCEPT !.Stand = TRUE, !.Message = "Blackjack! You win!"]
                ELSE s2
      IN [st |-> s3, fault |-> FALSE]

\* case "hit" with the bust test  score(state.PlayerHand) >= 21
hitBustAtTwentyOne(st) ==
    IF ~canAct(st) THEN [st |-> st, fault |-> FALSE]
    ELSE IF st.Deck = <<>> THEN [st |-> st, fault |-> TRUE]
    ELSE
      LET ph == Append(st.PlayerHand, Head(st.Deck))
          s1 == [st EXCEPT !.PlayerHand = ph, !.Deck = Tail(st.Deck)]
          s2 == IF score(ph) >= 21
                THEN [s1 EXCEPT !.Bust = TRUE, !.Message = "Bust!"]
                ELSE s1
          s3 == IF isBlackjack(ph)
                THEN [s2 EXCEPT !.Stand = TRUE, !.Message = "Blackjack! You win!"]
                ELSE s2
      IN [st |-> s3, fault |-> FALSE]

\* case "hit": the result, and whether state.Deck[0] was read out of range
hit(st) ==
    IF ~canAct(st) THEN [st |-> st, fault |-> FALSE]
    ELSE IF st.Deck = <<>> THEN [st |-> st, fault |-> TRUE]
    ELSE
      LET ph == Append(st.PlayerHand, Head(st.Deck))
          s1 == [st EXCEPT !.PlayerHand = ph, !.Deck = Tail(st.Deck)]
          s2 == IF score(ph) > 21
                THEN [s1 EXCEPT !.Bust = TRUE, !.Message = "Bust!"]
                ELSE s1
          s3 == IF isBlackjack(ph)
                THEN [s2 EXCEPT !.Stand = TRUE, !.Message = "Blackjack! You win!"]
                ELSE s2
      IN [st |-> s3, fault |-> FALSE]

\* the dealer's condition without the soft 17 rule
dealerDrawsBelow17(hand) == score(hand) < 17

\* the dealer's condition with the test dealerScore == 17 lost
dealerDrawsWhileAce(hand) ==
    score(hand) < 17 \/ hasAce(hand)

\* dealerScore < 17 || (dealerScore == 17 && hasAce(state.DealerHand))
dealerDraws(hand) ==
    score(hand) < 17 \/ (score(hand) = 17 /\ hasAce(hand))

\* the dealer loop of case "stand"
RECURSIVE dealerLoop(_)
dealerLoop(st) ==
    IF ~dealerDraws(st.DealerHand) THEN [st |-> st, fault |-> FALSE]
    ELSE IF st.Deck = <<>> THEN [st |-> st, fault |-> TRUE]
    ELSE dealerLoop([st EXCEPT !.DealerHand = Append(st.DealerHand, Head(st.Deck)),
                               !.Deck = Tail(st.Deck)])

\* the switch with a tie given to the player
winnerTieWins(playerScore, dealerScore) ==
    IF dealerScore > 21 THEN "Dealer busts! You win!"
    ELSE IF playerScore >= dealerScore THEN "You win!"
    ELSE "You lose!"

\* the switch that determines the winner
winner(playerScore, dealerScore) ==
    IF dealerScore > 21 THEN "Dealer busts! You win!"
    ELSE IF playerScore > dealerScore THEN "You win!"
    ELSE IF playerScore = dealerScore THEN "Push!"
    ELSE IF playerScore = 21 THEN "Blackjack! You win!"
    ELSE "You lose!"

\* case "stand"
stand(st) ==
    IF ~canAct(st) THEN [st |-> st, fault |-> FALSE]
    ELSE
      LET d == dealerLoop([st EXCEPT !.Stand = TRUE])
      IN IF d.fault THEN d
         ELSE [st |-> [d.st EXCEPT !.Message =
                          winner(score(d.st.PlayerHand), score(d.st.DealerHand))],
               fault |-> FALSE]

\* switch cmd.Action
apply(st, action) ==
    CASE action = "hit"   -> hit(st)
      [] action = "stand" -> stand(st)
      [] OTHER            -> [st |-> st, fault |-> FALSE]


(***************************************************************************)
(* State of the server.                                                    *)
(***************************************************************************)
VARIABLES
    now,        \* time.Now(), in minutes
    games,      \* the registry: gameID -> session
    nsessions,  \* sessions made by gameLoop so far
    created,    \* session.created
    closed,     \* whether session.commands has been closed
    wpc,        \* where each session's goroutine stands
    wcmd,       \* the command a session's goroutine holds (cmd)
    state,      \* the GameState owned by each session's goroutine
    hpc,        \* where each request handler stands
    hsess,      \* the session handle a handler holds
    hact,       \* the action a handler submits
    crashed     \* the unrecovered panic that ended the process, if any

vars == <<now, games, nsessions, created, closed, wpc, wcmd, state,
          hpc, hsess, hact, crashed>>

\* State of the hand evaluator taken alone, and of the two mutex-based
\* implementations of the server (src/main.go lines 286-492 and 494-757).
VARIABLES
    hand,       \* the argument of score
    total,      \* what score returned for it, -1 before the call
    gameDeck,   \* game.deck
    count,      \* game.count
    playerBust, \* game.playerBust
    mu,         \* the request that holds game.mu, 0 when it is free
    registered, \* whether games holds the game
    rpc,        \* where each request of the mutex-based servers stands
    rout        \* what each request of the mutex-based servers wrote

scoreVars == <<hand, total>>
mutexVars == <<gameDeck, count, playerBust, mu, registered, rpc, rout>>

\* the hand evaluator has not been called
scoreIdle == hand = <<>> /\ total = -1

\* no game of a mutex-based server has been started
mutexIdle ==
    /\ gameDeck = <<>>
    /\ count = 0
    /\ playerBust = FALSE
    /\ mu = 0
    /\ registered = FALSE
    /\ rpc = [h \in Handlers |-> "idle"]
    /\ rout = [h \in Handlers |-> ""]

TickStep == TTL
Times == {n * TickStep : n \in 0..(MaxNow \div TickStep)}

NoCmd == [Action |-> "", Response |-> 0]

\* the actor implementation right after start: no game, no request
actorIdle ==
    /\ now = 0
    /\ games = << >>
    /\ nsessions = 0
    /\ created = [s \in Sessions |-> 0]
    /\ closed = [s \in Sessions |-> FALSE]
    /\ wpc = [s \in Sessions |-> "none"]
    /\ wcmd = [s \in Sessions |-> NoCmd]
    /\ state = [s \in Sessions |-> NoState]
    /\ hpc = [h \in Handlers |-> "idle"]
    /\ hsess = [h \in Handlers |-> 0]
    /\ hact = [h \in Handlers |-> ""]
    /\ crashed = ""

Init == actorIdle /\ scoreIdle /\ mutexIdle

Running == crashed = ""

(***************************************************************************)
(* Registry.                                                               *)
(***************************************************************************)
\* getSession
getSession(gameID) ==
    IF gameID \in DOMAIN games
    THEN [session |-> games[gameID], exists |-> TRUE]
    ELSE [session |-> 0, exists |-> FALSE]

\* gameID := fmt.Sprintf("game-%d", time.Now().UnixNano())
newGameID == now

\* games[gameID] = session
register(gameID, s) ==
    [id \in DOMAIN games \cup {gameID} |-> IF id = gameID THEN s ELSE games[id]]

\* newHandler up to its send: createGame (which starts gameLoop's goroutine
\* and registers the session)
newHandler(h, deck) ==
    /\ Running
    /\ hpc[h] = "idle"
    /\ nsessions < MaxSessions
    /\ LET s == nsessions + 1 IN
         /\ nsessions' = s
         /\ state' = [state EXCEPT ![s] = initialState(deck)]
         /\ created' = [created EXCEPT ![s] = now]
         /\ wpc' = [wpc EXCEPT ![s] = "recv"]
         /\ games' = register(newGameID, s)
         /\ hsess' = [hsess EXCEPT ![h] = s]
    /\ hact' = [hact EXCEPT ![h] = ""]
    /\ hpc' = [hpc EXCEPT ![h] = "newsend"]
    /\ UNCHANGED <<now, closed, wcmd, crashed>>
    /\ UNCHANGED <<scoreVars, mutexVars>>

\* gameHandler up to its send: the lookup
gameHandler(h) ==
    /\ Running
    /\ hpc[h] = "idle"
    /\ \E gameID \in Times, action \in {"hit", "stand"} :
         LET found == getSession(gameID) IN
         IF found.exists
         THEN /\ hpc' = [hpc EXCEPT ![h] = "send"]
              /\ hsess' = [hsess EXCEPT ![h] = found.session]
              /\ hact' = [hact EXCEPT ![h] = action]
         ELSE /\ hpc' = [hpc EXCEPT ![h] = "notfound"]
              /\ UNCHANGED <<hsess, hact>>
    /\ UNCHANGED <<now, games, nsessions, created, closed, wpc, wcmd, state,
                   crashed>>
    /\ UNCHANGED <<scoreVars, mutexVars>>

\* session.commands <- GameCommand{...}  meets  for cmd := range
\* session.commands; the goroutine then runs the switch on cmd.Action and
\* stands at its reply
gameLoopRecv(s, h) ==
    /\ Running
    /\ wpc[s] = "recv"
    /\ ~closed[s]
    /\ hpc[h] \in {"send", "newsend"}
    /\ hsess[h] = s
    /\ hpc' = [hpc EXCEPT ![h] = IF hpc[h] = "send" THEN "wait" ELSE "newwait"]
    /\ hact' = [hact EXCEPT ![h] = ""]
    /\ LET r == apply(state[s], hact[h]) IN
       IF r.fault
       THEN /\ crashed' = "index out of range"
            /\ UNCHANGED <<state, wpc, wcmd>>
       ELSE /\ state' = [state EXCEPT ![s] = r.st]
            /\ wcmd' = [wcmd EXCEPT ![s] = [Action |-> hact[h], Response |-> h]]
            /\ wpc' = [wpc EXCEPT ![s] = "reply"]
            /\ UNCHANGED crashed
    /\ UNCHANGED <<now, games, nsessions, created, closed, hsess>>
    /\ UNCHANGED <<scoreVars, mutexVars>>

\* cmd.Response <- &state  meets  <-response  of the handler that sent cmd
gameLoopReply(s) ==
    /\ Running
    /\ wpc[s] = "reply"
    /\ LET h == wcmd[s].Response IN
       /\ hpc[h] \in {"wait", "newwait"}
       /\ hpc' = [hpc EXCEPT ![h] = IF hpc[h] = "wait" THEN "render" ELSE "started"]
    /\ wpc' = [wpc EXCEPT ![s] = "recv"]
    /\ wcmd' = [wcmd EXCEPT ![s] = NoCmd]
    /\ UNCHANGED <<now, games, nsessions, created, closed, state, hsess, hact,
                   crashed>>
    /\ UNCHANGED <<scoreVars, mutexVars>>

\* the range loop ends on the closed channel and the deferred
\* close(session.commands) runs
gameLoopExit(s) ==
    /\ Running
    /\ wpc[s] = "recv"
    /\ closed[s]
    /\ IF closed[s]
       THEN /\ crashed' = "close of closed channel"
            /\ UNCHANGED <<closed, wpc>>
       ELSE /\ closed' = [closed EXCEPT ![s] = TRUE]
            /\ wpc' = [wpc EXCEPT ![s] = "exited"]
            /\ UNCHANGED crashed
    /\ UNCHANGED <<now, games, nsessions, created, wcmd, state, hpc, hsess,
                   hact>>
    /\ UNCHANGED <<scoreVars, mutexVars>>

\* a send on (or blocked on) a closed channel panics; net/http recovers the
\* panic of a handler goroutine
handlerSendPanic(h) ==
    /\ Running
    /\ hpc[h] \in {"send", "newsend"}
    /\ closed[hsess[h]]
    /\ hpc' = [hpc EXCEPT ![h] = "panicked"]
    /\ hact' = [hact EXCEPT ![h] = ""]
    /\ UNCHANGED <<now, games, nsessions, created, closed, wpc, wcmd, state,
                   hsess, crashed>>
    /\ UNCHANGED <<scoreVars, mutexVars>>

\* case <-time.After(2 * time.Second): the request is over, its reply
\* channel has no receiver any more
gameHandlerTimeout(h) ==
    /\ Running
    /\ hpc[h] = "wait"
    /\ hpc' = [hpc EXCEPT ![h] = "timedout"]
    /\ UNCHANGED <<now, games, nsessions, created, closed, wpc, wcmd, state,
                   hsess, hact, crashed>>
    /\ UNCHANGED <<scoreVars, mutexVars>>

\* the GameState a handler in "render" reads: the target of the pointer
\* &state it received
replied(h) == state[hsess[h]]

\* templates.ExecuteTemplate has read the GameState through the pointer
gameHandlerRender(h) ==
    /\ Running
    /\ hpc[h] = "render"
    /\ hpc' = [hpc EXCEPT ![h] = "rendered"]
    /\ UNCHANGED <<now, games, nsessions, created, closed, wpc, wcmd, state,
                   hsess, hact, crashed>>
    /\ UNCHANGED <<scoreVars, mutexVars>>

\* the handler returns; its goroutine serves the next request
handlerReturn(h) ==
    /\ Running
    /\ hpc[h] \in {"notfound", "rendered", "panicked", "started"}
    /\ hpc' = [hpc EXCEPT ![h] = "idle"]
    /\ hsess' = [hsess EXCEPT ![h] = 0]
    /\ hact' = [hact EXCEPT ![h] = ""]
    /\ UNCHANGED <<now, games, nsessions, created, closed, wpc, wcmd, state,
                   crashed>>
    /\ UNCHANGED <<scoreVars, mutexVars>>

\* the test with >= in place of >
expiredAtTTL(s) == now - created[s] >= TTL

\* time.Since(session.created) > 30*time.Minute
expired(s) == now - created[s] > TTL

\* one pass of cleanupOldGames, run by the ticker of main
cleanupOldGames ==
    /\ Running
    /\ now > 0
    /\ now % TickerPeriod = 0
    /\ LET old == {id \in DOMAIN games : expired(games[id])} IN
       /\ games' = [id \in DOMAIN games \ old |-> games[id]]
       /\ IF \E id \in old : closed[games[id]]
          THEN /\ crashed' = "close of closed channel"
               /\ UNCHANGED closed
          ELSE /\ closed' = [s \in Sessions |->
                                closed[s] \/ \E id \in old : games[id] = s]
               /\ UNCHANGED crashed
    /\ UNCHANGED <<now, nsessions, created, wpc, wcmd, state, hpc, hsess, hact>>
    /\ UNCHANGED <<scoreVars, mutexVars>>

\* time passes
Tick ==
    /\ Running
    /\ now + TickStep <= MaxNow
    /\ now' = now + TickStep
    /\ UNCHANGED <<games, nsessions, created, closed, wpc, wcmd, state, hpc,
                   hsess, hact, crashed>>
    /\ UNCHANGED <<scoreVars, mutexVars>>

Next ==
    \/ \E h \in Clients, deck \in Shuffles : newHandler(h, deck)
    \/ \E h \in Clients : gameHandler(h)
    \/ \E s \in Sessions, h \in Clients : gameLoopRecv(s, h)
    \/ \E s \in Sessions : gameLoopReply(s)
    \/ \E s \in Sessions : gameLoopExit(s)
    \/ \E h \in Clients : handlerSendPanic(h)
    \/ \E h \in Clients : gameHandlerTimeout(h)
    \/ \E h \in Clients : gameHandlerRender(h)
    \/ \E h \in Clients : handlerReturn(h)
    \/ cleanupOldGames
    \/ Tick

Spec == Init /\ [][Next]_vars

(***************************************************************************)
(* One session played by NumHandlers concurrent requests, over the family  *)
(* of decks: the same actions, without the clock and the eviction pass.    *)
(***************************************************************************)
SessionNext ==
    \/ \E h \in Handlers, deck \in GameShuffles :
          nsessions = 0 /\ newHandler(h, deck)
    \/ \E h \in Handlers : gameHandler(h)
    \/ \E s \in Sessions, h \in Handlers : gameLoopRecv(s, h)
    \/ \E s \in Sessions : gameLoopReply(s)
    \/ \E h \in Handlers : gameHandlerTimeout(h)
    \/ \E h \in Handlers : gameHandlerRender(h)
    \/ \E h \in Handlers : handlerReturn(h)

SessionSpec == Init /\ [][SessionNext]_vars


(***************************************************************************)
(* The hand evaluator alone: a hand of at most MaxHandLen distinct cards   *)
(* is put together card by card (in increasing order of card number) and   *)
(* score is called on it.                                                  *)
(***************************************************************************)
\* hand = append(hand, c)
takeCard(c) ==
    /\ total = -1
    /\ Len(hand) < MaxHandLen
    /\ IF hand = <<>> THEN TRUE ELSE c > hand[Len(hand)]
    /\ hand' = Append(hand, c)
    /\ UNCHANGED <<total, vars, mutexVars>>

\* total := score(hand)
scoreCall ==
    /\ total = -1
    /\ total' = score(hand)
    /\ UNCHANGED <<hand, vars, mutexVars>>

ScoreNext ==
    \/ \E c \in 0..(NumCards - 1) : takeCard(c)
    \/ scoreCall


ScoreSpec == Init /\ [][ScoreNext]_<<vars, scoreVars, mutexVars>>

(***************************************************************************)
(* The mutex-based server with a hit counter (src/main.go lines 286-492):  *)
(* one game, served by NumHandlers concurrent requests.  A request looks   *)
(* the game up, takes game.mu, runs the body of its handler and returns.   *)
(***************************************************************************)
setRpc(h, pc) == rpc' = [rpc EXCEPT ![h] = pc]
setRout(h, out) == rout' = [rout EXCEPT ![h] = out]

\* games[gameID] = newGame()
counterNewGameHandler(deck) ==
    /\ gameDeck' = deck
    /\ count' = 0
    /\ registered' = TRUE
    /\ UNCHANGED <<playerBust, mu, rpc, rout, vars, scoreVars>>

\* game, ok := games[gameKey]; "Game not found" when it is not there
counterLookup(h, handler) ==
    /\ rpc[h] = "idle"
    /\ IF registered
       THEN setRpc(h, handler) /\ UNCHANGED rout
       ELSE setRout(h, "Game not found") /\ UNCHANGED rpc
    /\ UNCHANGED <<gameDeck, count, playerBust, mu, registered, vars,
                   scoreVars>>

\* game.mu.Lock()
counterLock(h) ==
    /\ rpc[h] \in {"hit", "stand"}
    /\ mu = 0
    /\ mu' = h
    /\ setRpc(h, IF rpc[h] = "hit" THEN "hitBody" ELSE "standBody")
    /\ UNCHANGED <<gameDeck, count, playerBust, registered, rout, vars,
                   scoreVars>>

\* the body of hitHandler under game.mu, and the deferred Unlock
counterHitHandler(h) ==
    /\ rpc[h] = "hitBody"
    /\ count' = count + 1
    /\ setRout(h, IF count' >= Len(gameDeck) THEN "Deck exhausted"
                  ELSE "game page")
    /\ mu' = 0
    /\ setRpc(h, "idle")
    /\ UNCHANGED <<gameDeck, playerBust, registered, vars, scoreVars>>

\* the dealer's loop of standHandler: cards deck[i], deck[i+1], ... (the
\* model's sequences start at 1) are appended until the score is 17 or more
RECURSIVE counterDealer(_, _, _)
counterDealer(deck, dealerHand, i) ==
    IF i > Len(deck) THEN dealerHand
    ELSE LET drawn == Append(dealerHand, deck[i]) IN
         IF score(drawn) >= 17 THEN drawn
         ELSE counterDealer(deck, drawn, i + 1)

counterOutcome(playerScore, dealerScore) ==
    IF playerScore > 21 THEN "You bust!"
    ELSE IF dealerScore > 21 \/ playerScore > dealerScore THEN "You win!"
    ELSE IF playerScore = dealerScore THEN "Push!"
    ELSE "You lose!"

SliceFault == "panic: slice bounds out of range"

\* the body of standHandler under game.mu, with the deferred delete and
\* Unlock, which also run when the body panics
counterStandHandler(h) ==
    /\ rpc[h] = "standBody"
    /\ IF 1 + count > Len(gameDeck)
       THEN setRout(h, SliceFault)
       ELSE LET playerHand == SubSeq(gameDeck, 2, 1 + count)
                dealerHand == counterDealer(gameDeck, <<gameDeck[1]>>,
                                            2 + count)
                dealerScore == IF Len(dealerHand) = 1 THEN 0
                               ELSE score(dealerHand)
            IN  setRout(h, counterOutcome(score(playerHand), dealerScore))
    /\ registered' = FALSE
    /\ mu' = 0
    /\ setRpc(h, "idle")
    /\ UNCHANGED <<gameDeck, count, playerBust, vars, scoreVars>>

CounterNext ==
    \/ \E deck \in GameShuffles : gameDeck = <<>> /\ counterNewGameHandler(deck)
    \/ \E h \in Handlers : count < MaxCount /\ counterLookup(h, "hit")
    \/ \E h \in Handlers : counterLookup(h, "stand")
    \/ \E h \in Handlers : counterLock(h)
    \/ \E h \in Handlers : counterHitHandler(h)
    \/ \E h \in Handlers : counterStandHandler(h)

CounterSpec == Init /\ [][CounterNext]_<<vars, scoreVars, mutexVars>>

(***************************************************************************)
(* The mutex-based server with the playerBust flag (src/main.go lines      *)
(* 494-757): one game, served by NumHandlers concurrent requests.          *)
(* sync.Mutex is not reentrant: Lock waits until mu is free, whoever       *)
(* holds it.                                                               *)
(***************************************************************************)
\* games[gameID] = newGame()
bustNewGameHandler(deck) ==
    /\ gameDeck' = deck
    /\ count' = 0
    /\ playerBust' = FALSE
    /\ registered' = TRUE
    /\ UNCHANGED <<mu, rpc, rout, vars, scoreVars>>

\* game, ok := games[gameKey]; "Game not found" when it is not there
bustLookup(h, handler) ==
    /\ rpc[h] = "idle"
    /\ IF registered
       THEN setRpc(h, handler) /\ UNCHANGED rout
       ELSE setRout(h, "Game not found") /\ UNCHANGED rpc
    /\ UNCHANGED <<gameDeck, count, playerBust, mu, registered, vars,
                   scoreVars>>

\* game.mu.Lock(), of hitHandler and of standHandler, also when
\* standHandler was called by hitHandler
bustLock(h) ==
    /\ rpc[h] \in {"hit", "stand"}
    /\ mu = 0
    /\ mu' = h
    /\ setRpc(h, IF rpc[h] = "hit" THEN "hitBody" ELSE "standBody")
    /\ UNCHANGED <<gameDeck, count, playerBust, registered, rout, vars,
                   scoreVars>>

\* the body of hitHandler under game.mu.  On a two-card 21 it calls
\* standHandler, which looks the game up and goes to its own
\* game.mu.Lock() while this request still holds game.mu; on every other
\* path the deferred Unlock runs and the request returns.
bustHitHandler(h) ==
    /\ rpc[h] = "hitBody"
    /\ IF playerBust \/ count >= Len(gameDeck) - 1
       THEN /\ setRout(h, "Invalid action")
            /\ mu' = 0
            /\ setRpc(h, "idle")
            /\ UNCHANGED <<count, playerBust>>
       ELSE LET playerHand == SubSeq(gameDeck, 2, 2 + count) IN
            /\ count' = count + 1
            /\ playerBust' = (playerBust \/ score(playerHand) > 21)
            /\ IF isBlackjack(playerHand)
               THEN IF registered
                    THEN /\ setRpc(h, "stand")
                         /\ UNCHANGED <<mu, rout>>
                    ELSE /\ setRout(h, "Game not found")
                         /\ mu' = 0
                         /\ setRpc(h, "idle")
               ELSE /\ setRout(h, "game page")
                    /\ mu' = 0
                    /\ setRpc(h, "idle")
    /\ UNCHANGED <<gameDeck, registered, vars, scoreVars>>

\* the dealer's loop of standHandler with its soft 17 rule
RECURSIVE bustDealer(_, _, _)
bustDealer(deck, dealerHand, i) ==
    IF i > Len(deck) THEN dealerHand
    ELSE LET drawn == Append(dealerHand, deck[i]) IN
         IF score(drawn) = 17 /\ hasAce(drawn)
         THEN bustDealer(deck, drawn, i + 1)
         ELSE IF score(drawn) >= 17 THEN drawn
         ELSE bustDealer(deck, drawn, i + 1)

determineOutcome(player, dealer) ==
    IF player > 21 THEN "You bust!"
    ELSE IF dealer > 21 THEN "Dealer busts! You win!"
    ELSE IF player = dealer THEN "Push!"
    ELSE IF player = 21 THEN "Blackjack! You win!"
    ELSE IF player > dealer THEN "You win!"
    ELSE "You lose!"

\* the body of standHandler under game.mu, with the deferred delete and
\* Unlock
bustStandHandler(h) ==
    /\ rpc[h] = "standBody"
    /\ IF count < 2
       THEN setRout(h, "Not enough cards to stand")
       ELSE LET playerHand == SubSeq(gameDeck, 2, 1 + count)
                dealerHand == bustDealer(gameDeck, <<gameDeck[1]>>, 2 + count)
                dealerScore == IF Len(dealerHand) = 1 THEN 0
                               ELSE score(dealerHand)
            IN  setRout(h, determineOutcome(score(playerHand), dealerScore))
    /\ registered' = FALSE
    /\ mu' = 0
    /\ setRpc(h, "idle")
    /\ UNCHANGED <<gameDeck, count, playerBust, vars, scoreVars>>

BustNext ==
    \/ \E deck \in GameShuffles : gameDeck = <<>> /\ bustNewGameHandler(deck)
    \/ \E h \in Handlers : bustLookup(h, "hit")
    \/ \E h \in Handlers : bustLookup(h, "stand")
    \/ \E h \in Handlers : bustLock(h)
    \/ \E h \in Handlers : bustHitHandler(h)
    \/ \E h \in Handlers : bustStandHandler(h)

BustSpec == Init /\ [][BustNext]_<<vars, scoreVars, mutexVars>>

(***************************************************************************)
(* Properties.                                                             *)
(***************************************************************************)
Range(seq) == {seq[i] : i \in 1..Len(seq)}

Live(s) == wpc[s] # "none"

Terminal(st) == st.Bust \/ st.Stand

\* C1: in every reachable state of a session, PlayerHand, DealerHand and the
\* remaining Deck are pairwise disjoint and together hold exactly the 52
\* cards 0..51, each once.
C1_DeckPartition ==
    \A s \in Sessions :
        Live(s) =>
          LET all == state[s].PlayerHand \o state[s].DealerHand \o state[s].Deck
          IN /\ Len(all) = NumCards
             /\ Range(all) = 0..(NumCards - 1)

\* C1 witness: a session in which the player has hit and the dealer has drawn
C1_Witness ==
    \E s \in Sessions :
        /\ Len(state[s].PlayerHand) >= 3
        /\ Len(state[s].DealerHand) >= 3
        /\ Len(state[s].Deck) < NumCards - 6

\* C2: the session goroutine applies each command it receives exactly once,
\* one at a time and in the order of receipt: the GameState changes only in
\* the step in which the goroutine takes one command from one sender, no
\* command is taken while a reply is pending, a sender leaves its send only
\* by having its command taken, a Hit taken in a non-terminal state appends
\* exactly one card, and that card is not one already held by the player.
C2_SerialExactlyOnce ==
    [][\A s \in Sessions :
         LET taken == wpc[s] = "recv" /\ wpc'[s] = "reply"
             ph  == state[s].PlayerHand
             ph2 == state'[s].PlayerHand
         IN
         /\ (Live(s) /\ state'[s] # state[s]) => taken
         /\ (wpc[s] = "reply" /\ wpc'[s] = "reply") => wcmd'[s] = wcmd[s]
         /\ taken =>
              /\ Cardinality({h \in Handlers : hpc[h] # hpc'[h]}) = 1
              /\ \E h \in Handlers :
                   /\ hpc[h] \in {"send", "newsend"}
                   /\ hpc'[h] \in {"wait", "newwait"}
                   /\ hsess[h] = s
                   /\ wcmd'[s] = [Action |-> hact[h], Response |-> h]
                   /\ IF hact[h] = "hit" /\ ~Terminal(state[s])
                      THEN /\ Len(ph2) = Len(ph) + 1
                           /\ SubSeq(ph2, 1, Len(ph)) = ph
                           /\ ph2[Len(ph2)] \notin Range(ph)
                      ELSE ph2 = ph
         /\ \A h \in Handlers :
              (hpc[h] = "send" /\ hsess[h] = s /\ hpc'[h] # "send" /\ ~closed[s])
                 => taken /\ wcmd'[s].Response = h
      ]_vars

\* C2 witness: two requests are in flight on one session that has already
\* accepted two Hits: one command is held by the goroutine, the other sender
\* is still waiting to hand its Hit over
C2_Witness ==
    \E s \in Sessions, h1, h2 \in Handlers :
        /\ h1 # h2
        /\ hsess[h1] = s /\ hsess[h2] = s
        /\ hpc[h1] = "wait" /\ wpc[s] = "reply" /\ wcmd[s].Response = h1
        /\ wcmd[s].Action = "hit"
        /\ hpc[h2] = "send" /\ hact[h2] = "hit"
        /\ Len(state[s].PlayerHand) >= 3
        /\ ~Terminal(state[s])

\* C3: once Bust or Stand is set, no later command changes PlayerHand,
\* DealerHand, Deck, Bust, Stand or Message, so the GameState every later
\* reply points to is the one the terminal command replied with.
C3_TerminalFrozen ==
    [][\A s \in Sessions :
         Terminal(state[s]) =>
            /\ state'[s] = state[s]
            /\ \A h \in Handlers :
                 (hsess[h] = s /\ hsess'[h] = s) => replied(h)' = replied(h)
      ]_vars

\* C3 witness: a busted session has taken a further stand command
C3_Witness ==
    \E s \in Sessions :
        /\ state[s].Bust
        /\ wpc[s] = "reply"
        /\ wcmd[s].Action = "stand"

\* C10: no Hit and no dealer draw reads the front of an empty Deck: the
\* process never dies of an index out of range, and a session that can
\* still act always has a card left.
C10_NeverDrawsFromEmptyDeck ==
    /\ crashed # "index out of range"
    /\ \A s \in Sessions :
         (Live(s) /\ ~Terminal(state[s])) => state[s].Deck # <<>>

\* C10 witness: a stand after which player and dealer hold twelve cards or
\* more, the dealer having drawn at least twice
C10_Witness ==
    \E s \in Sessions :
        /\ state[s].Stand
        /\ Len(state[s].DealerHand) >= 3
        /\ Len(state[s].PlayerHand) + Len(state[s].DealerHand) >= 12


\* C4: a handler that obtained its session handle before cleanupOldGames
\* evicted the session still hands its command over: no send on
\* session.commands ever panics.
C4_SendNeverPanics ==
    \A h \in Handlers : hpc[h] # "panicked"

\* C5: session.commands is closed at most once across cleanupOldGames and
\* the goroutine's deferred close, so an eviction never ends the process.
C5_ClosedAtMostOnce ==
    crashed # "close of closed channel"

\* C6: after a caller timed out, the goroutine does not stay blocked on the
\* abandoned reply channel: whenever it stands at its reply, the handler
\* that sent the command is still receiving.
C6_ReplyAlwaysReceivable ==
    \A s \in Sessions :
        wpc[s] = "reply" => hpc[wcmd[s].Response] \in {"wait", "newwait"}

\* C7: the GameState a caller received is its own snapshot: while the caller
\* is reading it, no later command changes what it reads.
C7_ReplyIsSnapshot ==
    [][\A h \in Handlers :
         (hpc[h] = "render" /\ hpc'[h] = "render") => replied(h)' = replied(h)
      ]_vars

\* C8: right after createGame the session holds two cards in PlayerHand,
\* two in DealerHand and the other 48 in Deck, with Bust and Stand false.
C8_TwoCardsEach ==
    [][\A s \in Sessions :
         (~Live(s) /\ Live(s)') =>
            /\ Len(state'[s].PlayerHand) = 2
            /\ Len(state'[s].DealerHand) = 2
            /\ Len(state'[s].Deck) = NumCards - 4
            /\ ~state'[s].Bust
            /\ ~state'[s].Stand
      ]_vars

\* C9: two createGame calls never return the same identifier: registering a
\* session never re-points an identifier that is already registered.
C9_NoOverwrite ==
    [][\A id \in DOMAIN games :
         id \in DOMAIN games' => games'[id] = games[id]
      ]_vars


\* C11: a cleanupOldGames pass removes from the registry every session whose
\* age exceeded the TTL when the pass began (later lookups of its
\* identifier find nothing) and leaves every other session registered, open
\* and unchanged; no other step removes a session.
C11_EvictsExactlyExpired ==
    [][(closed' # closed \/ \E id \in DOMAIN games : id \notin DOMAIN games') =>
         \A id \in DOMAIN games :
            LET s == games[id] IN
            IF now - created[s] > TTL
            THEN id \notin DOMAIN games'
            ELSE /\ id \in DOMAIN games'
                 /\ games'[id] = s
                 /\ closed'[s] = closed[s]
                 /\ created'[s] = created[s]
                 /\ state'[s] = state[s]
      ]_vars

\* C11 witness: after a pass at minute 60 one session has been evicted and
\* closed while a younger one is still registered and open
C11_Witness ==
    \E s1, s2 \in Sessions :
        /\ now = TickerPeriod
        /\ closed[s1]
        /\ \A id \in DOMAIN games : games[id] # s1
        /\ \E id \in DOMAIN games : games[id] = s2
        /\ ~closed[s2]
        /\ now - created[s2] = TTL

\* C12: once a Stand command has completed a round (the dealer has drawn and
\* the reply has been sent), the session is no longer in the registry.
C12_StandRemovesSession ==
    \A id \in DOMAIN games :
        LET s == games[id] IN
        ~(state[s].Stand /\ Len(state[s].DealerHand) >= 2 /\ wpc[s] = "recv")


\* a hand is soft when score still counts one of its Aces as 11
Soft(h) == 10 * countAces(h) > sumScores(h) - score(h)

Prefix(h, k) == SubSeq(h, 1, k)

\* the dealer has played: every stand draws at least one card
DealerPlayed(st) == st.Stand /\ Len(st.DealerHand) >= 2

\* C13: the dealer's loop ends after finitely many draws (a stand command
\* the goroutine has taken is always completed, within the cards of the
\* Deck), and the hand it stops on scores 17 or more and is not a soft 17.
C13_DealerStopsNotOnSoft17 ==
    /\ crashed # "index out of range"
    /\ \A s \in Sessions :
         /\ (wpc[s] = "reply" /\ wcmd[s].Action = "stand") => Terminal(state[s])
         /\ DealerPlayed(state[s]) =>
              LET dh == state[s].DealerHand IN
              /\ Len(dh) - 1 <= NumCards - 2
              /\ score(dh) >= 17
              /\ ~(score(dh) = 17 /\ Soft(dh))

\* C13 witness: the dealer held a soft 17 on the way and drew again
C13_Witness ==
    \E s \in Sessions :
        /\ DealerPlayed(state[s])
        /\ \E k \in 1..(Len(state[s].DealerHand) - 1) :
             LET p == Prefix(state[s].DealerHand, k) IN
             score(p) = 17 /\ Soft(p)

\* C14: the dealer draws exactly when its score is below 17 or it holds a
\* soft 17: every hand it drew on was such a hand (never a hard 17 or
\* more), and the hand it stopped on was not.
C14_DrawsOnlyBelow17OrSoft17 ==
    \A s \in Sessions :
        DealerPlayed(state[s]) =>
          LET dh == state[s].DealerHand IN
          /\ \A k \in 1..(Len(dh) - 1) :
               LET p == Prefix(dh, k) IN
               score(p) < 17 \/ (score(p) = 17 /\ Soft(p))
          /\ ~(score(dh) < 17 \/ (score(dh) = 17 /\ Soft(dh)))


\* the value of one card when every Ace counts 1
LowValue(c) ==
    LET rank == c % 13 IN
    IF rank = 12 THEN 1 ELSE IF rank >= 8 THEN 10 ELSE rank + 2

RECURSIVE LowTotal(_)
LowTotal(h) == IF h = <<>> THEN 0 ELSE LowValue(Head(h)) + LowTotal(Tail(h))

\* the totals of a hand over all ways to count each Ace as 1 or as 11
Totals(h) ==
    {LowTotal(h) + 10 * k :
        k \in 0..Cardinality({i \in 1..Len(h) : h[i] % 13 = 12})}

BestTotal(h) ==
    IF \E t \in Totals(h) : t <= 21
    THEN CHOOSE t \in Totals(h) :
            t <= 21 /\ \A u \in Totals(h) : u <= 21 => u <= t
    ELSE LowTotal(h)

\* C15: score(hand) is the best blackjack total: the largest total not over
\* 21 among the ways to count each Ace as 1 or 11 when there is one,
\* otherwise the total with every Ace counted as 1.
C15_ScoreIsBestTotal ==
    total # -1 => total = BestTotal(hand)

\* C15 witness: score returned 21 for a hand with two Aces, one counted as
\* 11 and one as 1
C15_Witness ==
    /\ total = 21
    /\ Cardinality({i \in 1..Len(hand) : hand[i] % 13 = 12}) = 2


\* C16: in the server with a hit counter, a hit rejected with "Deck
\* exhausted" leaves count as it was, so count stays below len(deck) and a
\* later stand slices deck[1:1+count] within bounds and completes without a
\* fault.
C16_StandCompletesAfterExhaustion ==
    \A h \in Handlers : rout[h] # SliceFault


\* the goroutine of session s takes a command with this Action in the step
Takes(s, action) ==
    wpc[s] = "recv" /\ wpc'[s] = "reply" /\ wcmd'[s].Action = action

\* C17: a hit applied to a non-terminal state moves exactly the front card
\* of Deck to the end of PlayerHand and leaves DealerHand unchanged;
\* afterwards Bust is set, with the bust message, iff the new player score
\* exceeds 21, Stand is set, with "Blackjack! You win!", iff the player hand
\* is exactly two cards scoring 21, and otherwise flags and Message are
\* unchanged.
C17_HitEffect ==
    [][\A s \in Sessions :
         (Takes(s, "hit") /\ ~Terminal(state[s])) =>
            LET old == state[s]
                new == state'[s]
            IN  /\ old.Deck # <<>>
                /\ new.PlayerHand = Append(old.PlayerHand, Head(old.Deck))
                /\ new.Deck = Tail(old.Deck)
                /\ new.DealerHand = old.DealerHand
                /\ new.Bust <=> score(new.PlayerHand) > 21
                /\ new.Bust => new.Message = "Bust!"
                /\ new.Stand <=> (Len(new.PlayerHand) = 2
                                  /\ score(new.PlayerHand) = 21)
                /\ new.Stand => new.Message = "Blackjack! You win!"
                /\ (~new.Bust /\ ~new.Stand) => new.Message = old.Message
      ]_vars

\* C17 witness: a hit has just given the player 21 on three cards or more,
\* and the session is still open
C17_Witness ==
    \E s \in Sessions :
        /\ wpc[s] = "reply"
        /\ wcmd[s].Action = "hit"
        /\ Len(state[s].PlayerHand) >= 3
        /\ score(state[s].PlayerHand) = 21
        /\ ~Terminal(state[s])

WinMessages == {"Dealer busts! You win!", "You win!", "Blackjack! You win!"}

\* C18: a stand applied to a non-terminal state sets Stand and sets Message
\* from the final scores, after the dealer has finished drawing: a player
\* win when the dealer score exceeds 21; otherwise "Push!" when the scores
\* are equal; otherwise a player win when the player score is greater;
\* otherwise "You lose!".
C18_StandOutcome ==
    [][\A s \in Sessions :
         (Takes(s, "stand") /\ ~Terminal(state[s])) =>
            LET new == state'[s]
                playerScore == score(new.PlayerHand)
                dealerScore == score(new.DealerHand)
            IN  /\ new.Stand
                /\ ~new.Bust
                /\ new.PlayerHand = state[s].PlayerHand
                /\ ~dealerDraws(new.DealerHand)
                /\ IF dealerScore > 21 THEN new.Message \in WinMessages
                   ELSE IF playerScore = dealerScore THEN new.Message = "Push!"
                   ELSE IF playerScore > dealerScore
                        THEN new.Message \in WinMessages
                   ELSE new.Message = "You lose!"
      ]_vars

\* C18 witness: a stand has ended in a tie after the dealer drew
C18_Witness ==
    \E s \in Sessions :
        /\ wpc[s] = "reply"
        /\ wcmd[s].Action = "stand"
        /\ DealerPlayed(state[s])
        /\ score(state[s].PlayerHand) = score(state[s].DealerHand)
        /\ state[s].Message = "Push!"

\* C19: in the actor implementation Bust and Stand are never both true,
\* and Bust is true iff score(PlayerHand) is greater than 21.
C19_BustIffOver21 ==
    \A s \in Sessions :
        Live(s) =>
          /\ ~(state[s].Bust /\ state[s].Stand)
          /\ state[s].Bust <=> score(state[s].PlayerHand) > 21

\* C19 witness: a busted session, its bust replied, is waiting for its next
\* command
C19_Witness ==
    \E s \in Sessions :
        /\ Live(s)
        /\ state[s].Bust
        /\ score(state[s].PlayerHand) > 21
        /\ wpc[s] = "recv"


\* C20: in the server with the playerBust flag every hitHandler invocation
\* returns and releases game.mu, also when the hit makes a two-card 21 and
\* hitHandler calls standHandler while holding game.mu: no request waits
\* for a game.mu that only it could release.
C20_HitNeverWaitsForItself ==
    \A h \in Handlers : ~(rpc[h] \in {"hit", "stand"} /\ mu = h)

====
